---- MODULE Spec2Model ----
(***************************************************************************)
(* RaidenAPI (raiden/api/python.py): the node API facade.  Every API call  *)
(* runs in a call flow of its own (greenlet); a call is a sequence of steps *)
(* separated by the points where the code can be suspended (a ledger round *)
(* trip, a confirmation wait).  The ledger, the channel state store and    *)
(* the state-change pipeline that reconciles ledger events into the store  *)
(* are the collaborators the facade talks to.                              *)
(* The event queries of the facade and ApiTestContext                      *)
(* (raiden/tests/utils/apitestcontext.py) have specifications of their own.*)
(***************************************************************************)
EXTENDS Integers, Sequences, FiniteSets, TLC

VARIABLES
    block,        \* raiden.get_block_number(): last block the node has observed
    chainTokens,  \* ledger: tokens registered with the registry contract
    tokenBal,     \* ledger: token.balance_of(raiden.address) of the token T1
    chain,        \* ledger: per channel [exists, deposit, closed]
    eventQ,       \* ledger events mined but not yet applied to the store
    tokens,       \* store: views.get_token_network_addresses_for
    store,        \* store: per channel [status, balance] (our_state.contract_balance)
    lock,         \* channel_operations_lock of each channel proxy: TRUE = held
    pc,           \* position of each call flow
    call,         \* the API call each flow is executing, with its arguments
    loc,          \* local variables of the call
    result,       \* what the call returned or raised
    hist,         \* history of the call (ledger calls, acquires, releases)
    served,       \* the calls a flow has completed before its current one
    contract_events,  \* ledger: the contract events the chain returns to event queries
    wal,          \* raiden.wal.storage: the internally recorded events, with their block
    returned_events,  \* what the last event query returned
    channels,     \* ApiTestContext.channels
    initiated,    \* the transfers handed to raiden.mediated_transfer_async
    transfer_result   \* the last transfer_async call and what it returned or raised

apiVars == <<block, chainTokens, tokenBal, chain, eventQ, tokens, store, lock,
             pc, call, loc, result, hist>>

eventVars == <<contract_events, wal, returned_events>>

transferVars == <<initiated, transfer_result>>

vars == <<apiVars, served, eventVars, channels, transferVars>>

ledgerVars == <<chainTokens, tokenBal, chain, eventQ>>
storeVars == <<tokens, store>>

----------------------------------------------------------------------------
(* Bounds of the model *)

MaxBlock == 1
InitTokenBalance == 2

Procs == {"a", "b"}
Partners == {"P1", "P2"}
T1 == "T1"
T2 == "T2"
BadAddr == "bad"
Amounts == {1, 3}

\* raiden.config['reveal_timeout'] and raiden.config['settle_timeout']
ConfigReveal == 1
ConfigSettle == 2

None == <<>>
Some(v) == <<v>>
OptTimeouts == {None} \cup {Some(v) : v \in {1, 2}}

OK == "OK"
NoResult == "none"

----------------------------------------------------------------------------
(* Helpers that model single expressions of the source *)

is_binary_address(a) == a # BadAddr

\* views.get_channelstate_for: the channel of (token, partner) in the store
\* snapshot, or no channel.  The snapshot is a value: later store updates do
\* not change it.
NoChannel == [exists |-> FALSE, identifier |-> "none", contract_balance |-> 0]

get_channelstate_for(token, partner) ==
    IF token = T1 /\ partner \in Partners /\ store[partner].status # "none"
    THEN [exists |-> TRUE, identifier |-> partner,
          contract_balance |-> store[partner].balance]
    ELSE NoChannel

\* views.filter_channels_by_partneraddress: the channels of the named
\* partners that exist for the token, in the order the partners are named
filter_channels_by_partneraddress(token, partner_addresses) ==
    SelectSeq(partner_addresses,
              LAMBDA x : get_channelstate_for(token, x).exists)

\* line 176: settle_timeout <= reveal_timeout
invalid_settle_mut(settle_timeout, reveal_timeout) == settle_timeout < reveal_timeout
invalid_settle(settle_timeout, reveal_timeout) == settle_timeout <= reveal_timeout

\* line 267: not balance >= amount
insufficient_mut(balance, amount) == FALSE
insufficient(balance, amount) == ~(balance >= amount)

\* lines 279, 377: not channel_operations_lock.acquire(blocking=False)
acquire_failed_mut(c) == FALSE
acquire_failed_global_mut(c) == \E d \in Partners : lock[d]
acquire_failed(c) == lock[c]

\* line 109: next_block = self.raiden.get_block_number() + 1
next_block_mut(b) == b
next_block_of(b) == b + 1

\* line 95: token_address in self.get_tokens_list(registry_address)
already_known_mut(token) == FALSE
already_known(token) == token \in tokens

\* waiting.wait_for_close: every channel id is closed (or settled) in the store
channel_closed(ids) ==
    \A i \in 1..Len(ids) : store[ids[i]].status \in {"closed", "settled"}

\* waiting.wait_for_participant_newbalance
participant_balance_at_least(c, target_balance) ==
    store[c].balance >= target_balance

\* waiting.wait_for_newchannel
channel_exists(token, partner) == get_channelstate_for(token, partner).exists

----------------------------------------------------------------------------
(* get_channel_list, lines 408-463 *)

\* token_address=None, partner_address=None
NoAddress == "None"

\* the ChannelState of the channel with partner c as the store holds it
ChannelState(c) ==
    [token |-> T1, partner |-> c, status |-> store[c].status,
     balance |-> store[c].balance]

\* views.list_all_channelstate
list_all_channelstate ==
    {ChannelState(c) : c \in {x \in Partners : store[x].status # "none"}}

\* views.list_channelstate_for_tokennetwork: the channels of the token
\* network of the address it is given
list_channelstate_for_tokennetwork(token_address) ==
    {ch \in list_all_channelstate : ch.token = token_address}

ListResult(error, found) == [error |-> error, channels |-> found]

\* token_address and partner_address are optional (NoAddress when not given)
get_channel_list(token_address, partner_address) ==
    IF token_address # NoAddress /\ ~is_binary_address(token_address)
    THEN ListResult("InvalidAddress", {})
    ELSE IF partner_address # NoAddress /\ ~is_binary_address(partner_address)
    THEN ListResult("InvalidAddress", {})
    ELSE IF token_address # NoAddress /\ partner_address # NoAddress
    THEN ListResult(OK,
            IF get_channelstate_for(token_address, partner_address).exists
            THEN {ChannelState(partner_address)}
            ELSE {})
    ELSE IF token_address # NoAddress
    THEN ListResult(OK, list_channelstate_for_tokennetwork(token_address))
    ELSE IF partner_address # NoAddress
    THEN ListResult(OK, list_channelstate_for_tokennetwork(partner_address))
    ELSE ListResult(OK, list_all_channelstate)

----------------------------------------------------------------------------
(* Call bookkeeping *)

NewCall(op, token, partners, amount, settle, reveal) ==
    [op |-> op, token |-> token, partners |-> partners, amount |-> amount,
     settle_timeout |-> settle, reveal_timeout |-> reveal]

NoCall == NewCall("none", T1, <<>>, 0, None, None)

LocInit ==
    [channel_state |-> NoChannel, channels_to_close |-> <<>>, idx |-> 0,
     balance |-> 0, target_balance |-> 0, next_block |-> 0, stack |-> {},
     outcome |-> NoResult]

HistInit ==
    [bal0 |-> 0,                         \* token balance when the call started
     registered0 |-> FALSE,              \* token registered on the ledger at the start
     known0 |-> FALSE,                   \* token known to the store at the start
     status0 |-> "none",                 \* store status of the named channel at the start
     prior |-> 0,                        \* store balance when our deposit was sent
     txs |-> <<>>,                       \* ledger calls made, in order
     acq |-> [c \in Partners |-> 0],     \* successful acquires per channel
     rel |-> [c \in Partners |-> 0],     \* releases per channel
     beat |-> FALSE,                     \* another close failed busy against this call
     failBlock |-> 0,                    \* block current when add_token returned
     unconfirmed |-> FALSE]              \* the wait timed out with its predicate false

\* a call flow serves one API request
CanStart(p) == pc[p] = "idle"

Begin(p, c, l) ==
    /\ call' = [call EXCEPT ![p] = c]
    /\ loc' = [loc EXCEPT ![p] = l]
    /\ hist' = [hist EXCEPT ![p] =
                    [HistInit EXCEPT !.bal0 = tokenBal,
                                     !.registered0 = c.token \in chainTokens,
                                     !.known0 = c.token \in tokens,
                                     !.status0 =
                                        IF /\ c.token = T1
                                           /\ Len(c.partners) = 1
                                           /\ c.partners[1] \in Partners
                                        THEN store[c.partners[1]].status
                                        ELSE "none"]]

Finish(p, res) ==
    /\ pc' = [pc EXCEPT ![p] = "done"]
    /\ result' = [result EXCEPT ![p] = res]

Goto(p, where) ==
    /\ pc' = [pc EXCEPT ![p] = where]
    /\ result' = [result EXCEPT ![p] = NoResult]

Step(p, where) ==
    /\ pc' = [pc EXCEPT ![p] = where]
    /\ UNCHANGED result

Tx(kind, who) == <<kind, who>>

Event(type, who, total) == [type |-> type, who |-> who, total |-> total]

\* the locks of S released
Released(S) == [c \in Partners |-> IF c \in S THEN FALSE ELSE lock[c]]

CountRel(h, S) ==
    [h EXCEPT !.rel = [c \in Partners |-> IF c \in S THEN @[c] + 1 ELSE @[c]]]

\* the call flow whose scope holds the lock of c
Holders(c) == {q \in Procs : c \in loc[q].stack}

MarkBeat(h, p, c) ==
    [q \in Procs |->
        IF q = p THEN h[p]
        ELSE IF q \in Holders(c) /\ call[q].op = "close" /\ call[p].op = "close"
             THEN [h[q] EXCEPT !.beat = TRUE]
             ELSE h[q]]

\* an amount argument: whether it is an int, and its value
Amount(is_int, value) == [is_int |-> is_int, value |-> value]

TransferCall(amount, token_address, target, res) ==
    [amount |-> amount, token_address |-> token_address, target |-> target,
     result |-> res]

\* no transfer_async call made yet
NoTransfer == TransferCall(Amount(TRUE, 0), T1, "P1", NoResult)

\* no event query made yet
NoQuery == [op |-> "none", error |-> OK, from_block |-> 0, to_block |-> <<>>,
            events |-> <<>>]

----------------------------------------------------------------------------
\* the node with the token T1 registered and funds of it
InitWith(funds) ==
    /\ block = 0
    /\ chainTokens = {T1}
    /\ tokens = {T1}
    /\ tokenBal = funds
    /\ \E open \in {S \in SUBSET Partners : "P1" \in S} :
        /\ chain = [c \in Partners |->
                      [exists |-> c \in open, deposit |-> 0, closed |-> FALSE]]
        /\ store = [c \in Partners |->
                      [status |-> IF c \in open THEN "open" ELSE "none",
                       balance |-> 0]]
    /\ eventQ = <<>>
    /\ lock = [c \in Partners |-> FALSE]
    /\ pc = [p \in Procs |-> "idle"]
    /\ call = [p \in Procs |-> NoCall]
    /\ loc = [p \in Procs |-> LocInit]
    /\ result = [p \in Procs |-> NoResult]
    /\ hist = [p \in Procs |-> HistInit]
    /\ served = <<>>
    /\ contract_events = <<>>
    /\ wal = <<>>
    /\ returned_events = NoQuery
    /\ channels = <<>>
    /\ initiated = <<>>
    /\ transfer_result = NoTransfer

Init == InitWith(InitTokenBalance)

----------------------------------------------------------------------------
(* token_network_register, lines 71-110 *)

token_network_register_start(p, token_address) ==
    /\ CanStart(p)
    /\ block < MaxBlock
    /\ Begin(p, NewCall("register", token_address, <<>>, 0, None, None), LocInit)
    /\ IF ~is_binary_address(token_address) THEN Finish(p, "InvalidAddress")
       ELSE IF already_known(token_address)
            THEN Finish(p, "AlreadyRegisteredTokenAddress")
            ELSE Goto(p, "register_submit")
    /\ UNCHANGED <<block, ledgerVars, storeVars, lock>>

\* registry.add_token returned or raised; the finally clause computes next_block
token_network_register_submit(p) ==
    /\ pc[p] = "register_submit"
    /\ LET t == call[p].token
           h == [hist[p] EXCEPT !.txs = Append(@, Tx("register", t)),
                                !.failBlock = block]
       IN
       /\ hist' = [hist EXCEPT ![p] = h]
       /\ \/ /\ t \notin chainTokens
             /\ chainTokens' = chainTokens \cup {t}
             /\ eventQ' = Append(eventQ, Event("TokenAdded", t, 0))
             /\ loc' = [loc EXCEPT ![p].outcome = OK,
                                   ![p].next_block = next_block_of(block)]
          \/ /\ UNCHANGED <<chainTokens, eventQ>>
             /\ loc' = [loc EXCEPT ![p].outcome = "TransactionThrew",
                                   ![p].next_block = next_block_of(block)]
    /\ Step(p, "register_wait")
    /\ UNCHANGED <<block, tokenBal, chain, storeVars, lock, call>>

\* waiting.wait_for_block returns, then the outcome of add_token is delivered
token_network_register_wait(p) ==
    /\ pc[p] = "register_wait"
    /\ block >= loc[p].next_block
    /\ Finish(p, loc[p].outcome)
    /\ UNCHANGED <<block, ledgerVars, storeVars, lock, call, loc, hist>>

----------------------------------------------------------------------------
(* channel_open, lines 158-210 *)

channel_open_start(p, token_address, partner_address, settle_timeout, reveal_timeout) ==
    /\ CanStart(p)
    /\ Begin(p, NewCall("open", token_address, <<partner_address>>, 0,
                        settle_timeout, reveal_timeout), LocInit)
    /\ LET reveal == IF reveal_timeout = None THEN ConfigReveal ELSE reveal_timeout[1]
           settle == IF settle_timeout = None THEN ConfigSettle ELSE settle_timeout[1]
       IN IF invalid_settle(settle, reveal) THEN Finish(p, "InvalidSettleTimeout")
          ELSE IF ~is_binary_address(token_address) THEN Finish(p, "InvalidAddress")
          ELSE IF ~is_binary_address(partner_address) THEN Finish(p, "InvalidAddress")
          ELSE Goto(p, "open_submit")
    /\ UNCHANGED <<block, ledgerVars, storeVars, lock>>

\* channel_manager.new_netting_channel: the ledger refuses a second channel
\* with the same partner
channel_open_submit(p) ==
    /\ pc[p] = "open_submit"
    /\ LET c == call[p].partners[1] IN
       /\ hist' = [hist EXCEPT ![p].txs = Append(@, Tx("open", c))]
       /\ \/ /\ ~chain[c].exists
             /\ chain' = [chain EXCEPT ![c].exists = TRUE]
             /\ eventQ' = Append(eventQ, Event("ChannelNew", c, 0))
             /\ Step(p, "open_wait")
          \/ /\ chain[c].exists
             /\ UNCHANGED <<chain, eventQ>>
             /\ Finish(p, "TransactionThrew")
    /\ UNCHANGED <<block, chainTokens, tokenBal, storeVars, lock, call, loc>>

channel_open_wait(p) ==
    /\ pc[p] = "open_wait"
    /\ channel_exists(call[p].token, call[p].partners[1])
    /\ Finish(p, OK)
    /\ UNCHANGED <<block, ledgerVars, storeVars, lock, call, loc, hist>>

\* gevent.Timeout(poll_timeout, EthNodeCommunicationError(msg)), line 201
channel_open_timeout(p) ==
    /\ pc[p] = "open_wait"
    /\ hist' = [hist EXCEPT ![p].unconfirmed =
                    ~channel_exists(call[p].token, call[p].partners[1])]
    /\ Finish(p, "EthNodeCommunicationError")
    /\ UNCHANGED <<block, ledgerVars, storeVars, lock, call, loc>>

----------------------------------------------------------------------------
(* channel_deposit, lines 212-307 *)

\* lines 236-259: the channel state is read, then the arguments are validated
channel_deposit_start(p, token_address, partner_address, amount) ==
    /\ CanStart(p)
    /\ LET channel_state == get_channelstate_for(token_address, partner_address) IN
       /\ Begin(p, NewCall("deposit", token_address, <<partner_address>>, amount,
                           None, None),
                [LocInit EXCEPT !.channel_state = channel_state])
       /\ IF ~is_binary_address(token_address) THEN Finish(p, "InvalidAddress")
          ELSE IF ~is_binary_address(partner_address) THEN Finish(p, "InvalidAddress")
          ELSE IF token_address \notin tokens THEN Finish(p, "UnknownTokenAddress")
          ELSE IF ~channel_state.exists THEN Finish(p, "InvalidAddress")
          ELSE Goto(p, "deposit_balance")
    /\ UNCHANGED <<block, ledgerVars, storeVars, lock>>

\* lines 261-273: token.balance_of is a ledger round trip, then the funds check
channel_deposit_funds(p) ==
    /\ pc[p] = "deposit_balance"
    /\ loc' = [loc EXCEPT ![p].balance = tokenBal]
    /\ IF insufficient(tokenBal, call[p].amount)
       THEN Finish(p, "InsufficientFunds")
       ELSE Step(p, "deposit_acquire")
    /\ UNCHANGED <<block, ledgerVars, storeVars, lock, call, hist>>

\* lines 275-285: the non-blocking acquire; on success the lock enters the
\* releasing scope
channel_deposit_acquire_mut(p) ==
    /\ pc[p] = "deposit_acquire"
    /\ LET c == loc[p].channel_state.identifier IN
       IF acquire_failed(c)
       THEN /\ Finish(p, "ChannelBusyError")
            /\ hist' = MarkBeat(hist, p, c)
            /\ lock' = [lock EXCEPT ![c] = FALSE]
            /\ UNCHANGED loc
       ELSE /\ lock' = [lock EXCEPT ![c] = TRUE]
            /\ loc' = [loc EXCEPT ![p].stack = {c}]
            /\ hist' = [hist EXCEPT ![p].acq[c] = @ + 1]
            /\ Step(p, "deposit_approve")
    /\ UNCHANGED <<block, ledgerVars, storeVars, call>>

channel_deposit_acquire(p) ==
    /\ pc[p] = "deposit_acquire"
    /\ LET c == loc[p].channel_state.identifier IN
       IF acquire_failed(c)
       THEN /\ Finish(p, "ChannelBusyError")
            /\ hist' = MarkBeat(hist, p, c)
            /\ UNCHANGED <<lock, loc>>
       ELSE /\ lock' = [lock EXCEPT ![c] = TRUE]
            /\ loc' = [loc EXCEPT ![p].stack = {c}]
            /\ hist' = [hist EXCEPT ![p].acq[c] = @ + 1]
            /\ Step(p, "deposit_approve")
    /\ UNCHANGED <<block, ledgerVars, storeVars, call>>

\* the with releasing(...) block of line 285 is left: the lock is released
\* and the call returns or raises res
releasing_exit_mut(p, res, h) ==
    /\ lock' = IF res = OK THEN Released(loc[p].stack) ELSE lock
    /\ loc' = [loc EXCEPT ![p].stack = {}]
    /\ hist' = [hist EXCEPT ![p] = IF res = OK THEN CountRel(h, loc[p].stack) ELSE h]
    /\ Finish(p, res)

releasing_exit(p, res, h) ==
    /\ lock' = Released(loc[p].stack)
    /\ loc' = [loc EXCEPT ![p].stack = {}]
    /\ hist' = [hist EXCEPT ![p] = CountRel(h, loc[p].stack)]
    /\ Finish(p, res)

\* the deposit transaction sent where the approval belongs
channel_deposit_approve_mut(p) ==
    /\ pc[p] = "deposit_approve"
    /\ LET c == loc[p].channel_state.identifier
           h == [hist[p] EXCEPT !.txs = Append(@, Tx("deposit", c))]
       IN \/ /\ hist' = [hist EXCEPT ![p] = h]
             /\ Step(p, "deposit_submit")
             /\ UNCHANGED <<lock, loc>>
          \/ releasing_exit(p, "TransactionThrew", h)
    /\ UNCHANGED <<block, ledgerVars, storeVars, call>>

\* line 286: token.approve(netcontract_address, amount)
channel_deposit_approve(p) ==
    /\ pc[p] = "deposit_approve"
    /\ LET c == loc[p].channel_state.identifier
           h == [hist[p] EXCEPT !.txs = Append(@, Tx("approve", c))]
       IN \/ /\ hist' = [hist EXCEPT ![p] = h]
             /\ Step(p, "deposit_submit")
             /\ UNCHANGED <<lock, loc>>
          \/ releasing_exit(p, "TransactionThrew", h)
    /\ UNCHANGED <<block, ledgerVars, storeVars, call>>

\* lines 287-290: channel_proxy.deposit(amount), then the target balance is
\* computed from the channel state read at line 242
channel_deposit_submit(p) ==
    /\ pc[p] = "deposit_submit"
    /\ LET c == loc[p].channel_state.identifier
           amount == call[p].amount
           h == [hist[p] EXCEPT !.txs = Append(@, Tx("deposit", c)),
                                !.prior = store[c].balance]
           old_balance == loc[p].channel_state.contract_balance
       IN \/ /\ tokenBal >= amount
             /\ chain[c].exists /\ ~chain[c].closed
             /\ tokenBal' = tokenBal - amount
             /\ chain' = [chain EXCEPT ![c].deposit = @ + amount]
             /\ eventQ' = Append(eventQ,
                    Event("ChannelNewBalance", c, chain[c].deposit + amount))
             /\ loc' = [loc EXCEPT ![p].target_balance = old_balance + amount]
             /\ hist' = [hist EXCEPT ![p] = h]
             /\ Step(p, "deposit_wait")
             /\ UNCHANGED lock
          \/ /\ releasing_exit(p, "TransactionThrew", h)
             /\ UNCHANGED <<tokenBal, chain, eventQ>>
    /\ UNCHANGED <<block, chainTokens, storeVars, call>>

\* lines 297-307: wait_for_participant_newbalance returns
channel_deposit_wait(p) ==
    /\ pc[p] = "deposit_wait"
    /\ participant_balance_at_least(loc[p].channel_state.identifier,
                                    loc[p].target_balance)
    /\ releasing_exit(p, OK, hist[p])
    /\ UNCHANGED <<block, ledgerVars, storeVars, call>>

\* line 297: gevent.Timeout raises EthNodeCommunicationError inside the wait
wait_timeout_mut(p, confirmed) ==
    /\ releasing_exit(p, "EthNodeCommunicationError",
                      [hist[p] EXCEPT !.unconfirmed = ~confirmed])
    /\ eventQ' = <<>>
    /\ UNCHANGED <<block, chainTokens, tokenBal, chain, storeVars, call>>

wait_timeout(p, confirmed) ==
    /\ releasing_exit(p, "EthNodeCommunicationError",
                      [hist[p] EXCEPT !.unconfirmed = ~confirmed])
    /\ UNCHANGED <<block, ledgerVars, storeVars, call>>

channel_deposit_timeout(p) ==
    /\ pc[p] = "deposit_wait"
    /\ wait_timeout(p, participant_balance_at_least(
                           loc[p].channel_state.identifier, loc[p].target_balance))

----------------------------------------------------------------------------
(* channel_close and channel_batch_close, lines 309-406 *)

\* lines 341-365; channel_close (lines 321-326) is the batch of one partner
channel_batch_close_start(p, op, token_address, partner_addresses) ==
    /\ CanStart(p)
    /\ LET channels_to_close ==
              filter_channels_by_partneraddress(token_address, partner_addresses)
       IN
       /\ Begin(p, NewCall(op, token_address, partner_addresses, 0, None, None),
                [LocInit EXCEPT !.channels_to_close = channels_to_close, !.idx = 1])
       /\ IF ~is_binary_address(token_address) THEN Finish(p, "InvalidAddress")
          ELSE IF \E i \in 1..Len(partner_addresses) :
                      ~is_binary_address(partner_addresses[i])
               THEN Finish(p, "InvalidAddress")
          ELSE IF token_address \notin tokens THEN Finish(p, "UnknownTokenAddress")
          ELSE IF channels_to_close = <<>> THEN Finish(p, OK)
          ELSE Goto(p, "close_acquire")
    /\ UNCHANGED <<block, ledgerVars, storeVars, lock>>

\* the ExitStack of line 369 is left: every lock pushed on it is released
exit_stack_mut(p, res, h) ==
    /\ lock' = IF res = "ChannelBusyError" THEN lock ELSE Released(loc[p].stack)
    /\ loc' = [loc EXCEPT ![p].stack = {}]
    /\ hist' = h
    /\ Finish(p, res)

exit_stack_nopush_mut(p, res, h) ==
    /\ lock' = lock
    /\ loc' = [loc EXCEPT ![p].stack = {}]
    /\ hist' = h
    /\ Finish(p, res)

exit_stack_all_mut(p, res, h) ==
    /\ lock' = Released(Partners)
    /\ loc' = [loc EXCEPT ![p].stack = {}]
    /\ hist' = [h EXCEPT ![p] = CountRel(h[p], loc[p].stack)]
    /\ Finish(p, res)

exit_stack(p, res, h) ==
    /\ lock' = Released(loc[p].stack)
    /\ loc' = [loc EXCEPT ![p].stack = {}]
    /\ hist' = [h EXCEPT ![p] = CountRel(h[p], loc[p].stack)]
    /\ Finish(p, res)

\* lines 372-383: one iteration of the acquisition loop
channel_batch_close_acquire_mut(p) ==
    /\ pc[p] = "close_acquire"
    /\ LET ids == loc[p].channels_to_close
           i == loc[p].idx
           c == ids[i]
       IN IF acquire_failed(c)
          THEN /\ Step(p, "close_blocked")
               /\ UNCHANGED <<lock, loc, hist>>
          ELSE /\ lock' = [lock EXCEPT ![c] = TRUE]
               /\ loc' = [loc EXCEPT ![p].stack = @ \cup {c},
                                     ![p].idx = IF i = Len(ids) THEN 1 ELSE i + 1]
               /\ hist' = [hist EXCEPT ![p].acq[c] = @ + 1]
               /\ Step(p, IF i = Len(ids) THEN "close_submit" ELSE "close_acquire")
    /\ UNCHANGED <<block, ledgerVars, storeVars, call>>

channel_batch_close_acquire(p) ==
    /\ pc[p] = "close_acquire"
    /\ LET ids == loc[p].channels_to_close
           i == loc[p].idx
           c == ids[i]
       IN IF acquire_failed(c)
          THEN exit_stack(p, "ChannelBusyError", MarkBeat(hist, p, c))
          ELSE /\ lock' = [lock EXCEPT ![c] = TRUE]
               /\ loc' = [loc EXCEPT ![p].stack = @ \cup {c},
                                     ![p].idx = IF i = Len(ids) THEN 1 ELSE i + 1]
               /\ hist' = [hist EXCEPT ![p].acq[c] = @ + 1]
               /\ Step(p, IF i = Len(ids) THEN "close_submit" ELSE "close_acquire")
    /\ UNCHANGED <<block, ledgerVars, storeVars, call>>

\* lines 385-391: one iteration of the loop that dispatches ActionChannelClose.
\* An open channel becomes closing and its close transaction is sent.
channel_batch_close_submit(p) ==
    /\ pc[p] = "close_submit"
    /\ LET ids == loc[p].channels_to_close
           i == loc[p].idx
           c == ids[i]
           h == [hist EXCEPT ![p].txs = Append(@, Tx("close", c))]
           last == i = Len(ids)
       IN \/ /\ IF store[c].status = "open"
                THEN /\ store' = [store EXCEPT ![c].status = "closing"]
                     /\ chain' = [chain EXCEPT ![c].closed = TRUE]
                     /\ eventQ' = IF chain[c].closed THEN eventQ
                                  ELSE Append(eventQ, Event("ChannelClosed", c, 0))
                ELSE UNCHANGED <<store, chain, eventQ>>
             /\ loc' = [loc EXCEPT ![p].idx = IF last THEN 1 ELSE i + 1]
             /\ hist' = h
             /\ Step(p, IF last THEN "close_wait" ELSE "close_submit")
             /\ UNCHANGED lock
          \/ /\ store[c].status = "open"
             /\ store' = [store EXCEPT ![c].status = "closing"]
             /\ exit_stack(p, "TransactionThrew", h)
             /\ UNCHANGED <<chain, eventQ>>
    /\ UNCHANGED <<block, chainTokens, tokenBal, tokens, call>>

channel_batch_close_wait_mut(p) ==
    /\ pc[p] = "close_wait"
    /\ channel_closed(<<loc[p].channels_to_close[1]>>)
    /\ exit_stack(p, OK, hist)
    /\ UNCHANGED <<block, ledgerVars, storeVars, call>>

\* lines 399-406: wait_for_close returns
channel_batch_close_wait(p) ==
    /\ pc[p] = "close_wait"
    /\ channel_closed(loc[p].channels_to_close)
    /\ exit_stack(p, OK, hist)
    /\ UNCHANGED <<block, ledgerVars, storeVars, call>>

\* line 399: gevent.Timeout raises EthNodeCommunicationError inside the wait
channel_batch_close_timeout(p) ==
    /\ pc[p] = "close_wait"
    /\ exit_stack(p, "EthNodeCommunicationError",
                  [hist EXCEPT ![p].unconfirmed =
                       ~channel_closed(loc[p].channels_to_close)])
    /\ UNCHANGED <<block, ledgerVars, storeVars, call>>

----------------------------------------------------------------------------
(* The state-change pipeline and the block source (external collaborators) *)

\* the oldest unprocessed ledger event is applied to the store
reconcile ==
    /\ eventQ # <<>>
    /\ LET e == Head(eventQ) IN
       /\ eventQ' = Tail(eventQ)
       /\ tokens' = IF e.type = "TokenAdded" THEN tokens \cup {e.who} ELSE tokens
       /\ store' =
            IF e.type = "ChannelNew" /\ store[e.who].status = "none"
            THEN [store EXCEPT ![e.who] = [status |-> "open", balance |-> 0]]
            ELSE IF e.type = "ChannelNewBalance" /\ store[e.who].status # "none"
            THEN [store EXCEPT ![e.who].balance = e.total]
            ELSE IF e.type = "ChannelClosed" /\ store[e.who].status \in {"open", "closing"}
            THEN [store EXCEPT ![e.who].status = "closed"]
            ELSE store
    /\ UNCHANGED <<block, chainTokens, tokenBal, chain, lock, pc, call, loc,
                   result, hist>>

new_block ==
    /\ block < MaxBlock
    /\ block' = block + 1
    /\ UNCHANGED <<ledgerVars, storeVars, lock, pc, call, loc, result, hist>>

----------------------------------------------------------------------------
PartnerLists ==
    {<<x>> : x \in Partners} \cup
    {xy \in Partners \X Partners : xy[1] # xy[2]}

Next ==
    \/ \E p \in Procs, t \in {T1, T2, BadAddr} : token_network_register_start(p, t)
          /\ UNCHANGED <<served, eventVars, channels, transferVars>>
    \/ \E p \in Procs : token_network_register_submit(p)
          /\ UNCHANGED <<served, eventVars, channels, transferVars>>
    \/ \E p \in Procs : token_network_register_wait(p)
          /\ UNCHANGED <<served, eventVars, channels, transferVars>>
    \/ \E p \in Procs, t \in {T1, BadAddr}, x \in Partners \cup {BadAddr},
          s \in OptTimeouts, r \in OptTimeouts :
          channel_open_start(p, t, x, s, r)
          /\ UNCHANGED <<served, eventVars, channels, transferVars>>
    \/ \E p \in Procs : channel_open_submit(p)
          /\ UNCHANGED <<served, eventVars, channels, transferVars>>
    \/ \E p \in Procs : channel_open_wait(p)
          /\ UNCHANGED <<served, eventVars, channels, transferVars>>
    \/ \E p \in Procs : channel_open_timeout(p)
          /\ UNCHANGED <<served, eventVars, channels, transferVars>>
    \/ \E p \in Procs, t \in {T1, T2, BadAddr}, x \in Partners \cup {BadAddr},
          a \in Amounts :
          channel_deposit_start(p, t, x, a)
          /\ UNCHANGED <<served, eventVars, channels, transferVars>>
    \/ \E p \in Procs : channel_deposit_funds(p)
          /\ UNCHANGED <<served, eventVars, channels, transferVars>>
    \/ \E p \in Procs : channel_deposit_acquire(p)
          /\ UNCHANGED <<served, eventVars, channels, transferVars>>
    \/ \E p \in Procs : channel_deposit_approve(p)
          /\ UNCHANGED <<served, eventVars, channels, transferVars>>
    \/ \E p \in Procs : channel_deposit_submit(p)
          /\ UNCHANGED <<served, eventVars, channels, transferVars>>
    \/ \E p \in Procs : channel_deposit_wait(p)
          /\ UNCHANGED <<served, eventVars, channels, transferVars>>
    \/ \E p \in Procs : channel_deposit_timeout(p)
          /\ UNCHANGED <<served, eventVars, channels, transferVars>>
    \/ \E p \in Procs, t \in {T1, T2, BadAddr}, x \in Partners \cup {BadAddr} :
          channel_batch_close_start(p, "close", t, <<x>>)
          /\ UNCHANGED <<served, eventVars, channels, transferVars>>
    \/ \E p \in Procs, t \in {T1, T2, BadAddr}, xs \in PartnerLists :
          channel_batch_close_start(p, "batch_close", t, xs)
          /\ UNCHANGED <<served, eventVars, channels, transferVars>>
    \/ \E p \in Procs : channel_batch_close_acquire(p)
          /\ UNCHANGED <<served, eventVars, channels, transferVars>>
    \/ \E p \in Procs : channel_batch_close_submit(p)
          /\ UNCHANGED <<served, eventVars, channels, transferVars>>
    \/ \E p \in Procs : channel_batch_close_wait(p)
          /\ UNCHANGED <<served, eventVars, channels, transferVars>>
    \/ \E p \in Procs : channel_batch_close_timeout(p)
          /\ UNCHANGED <<served, eventVars, channels, transferVars>>
    \/ reconcile
          /\ UNCHANGED <<served, eventVars, channels, transferVars>>
    \/ new_block
          /\ UNCHANGED <<served, eventVars, channels, transferVars>>

Spec == Init /\ [][Next]_vars

\* the steps a call takes between acquiring its first lock and returning:
\* the ledger calls, which return, and the confirmation wait, which ends
\* with the predicate true or with the timeout
LockedStep(p) ==
    /\ \/ channel_deposit_approve(p)
       \/ channel_deposit_submit(p)
       \/ channel_deposit_wait(p)
       \/ channel_deposit_timeout(p)
       \/ channel_batch_close_acquire(p)
       \/ channel_batch_close_submit(p)
       \/ channel_batch_close_wait(p)
       \/ channel_batch_close_timeout(p)
    /\ UNCHANGED <<served, eventVars, channels, transferVars>>

\* a call flow that can take its next step is scheduled, ledger calls
\* return and gevent.Timeout fires
LiveSpec == Spec /\ \A p \in Procs : WF_vars(LockedStep(p))

----------------------------------------------------------------------------
(* A caller that makes one call after the other: open, deposit and close
   with the arguments of the lifecycle scenario *)

MaxServed == 3
ScenarioFunds == 250

ScenarioSettle == 800
ScenarioReveal == 20
ScenarioDeposit == 100

Caller == "a"

ServedCall(p) ==
    [op |-> call[p].op, partners |-> call[p].partners, result |-> result[p]]

\* the call has returned and the caller makes its next request
next_request(p) ==
    /\ pc[p] = "done"
    /\ Len(served) < MaxServed
    /\ served' = Append(served, ServedCall(p))
    /\ pc' = [pc EXCEPT ![p] = "idle"]
    /\ call' = [call EXCEPT ![p] = NoCall]
    /\ loc' = [loc EXCEPT ![p] = LocInit]
    /\ result' = [result EXCEPT ![p] = NoResult]
    /\ hist' = [hist EXCEPT ![p] = HistInit]
    /\ UNCHANGED <<block, ledgerVars, storeVars, lock, eventVars, channels,
                   transferVars>>

ScenarioNext ==
    \/ \E x \in Partners :
          channel_open_start(Caller, T1, x, Some(ScenarioSettle), Some(ScenarioReveal))
          /\ UNCHANGED <<served, eventVars, channels, transferVars>>
    \/ channel_open_submit(Caller) /\ UNCHANGED <<served, eventVars, channels, transferVars>>
    \/ channel_open_wait(Caller) /\ UNCHANGED <<served, eventVars, channels, transferVars>>
    \/ channel_open_timeout(Caller) /\ UNCHANGED <<served, eventVars, channels, transferVars>>
    \/ \E x \in Partners :
          channel_deposit_start(Caller, T1, x, ScenarioDeposit)
          /\ UNCHANGED <<served, eventVars, channels, transferVars>>
    \/ channel_deposit_funds(Caller) /\ UNCHANGED <<served, eventVars, channels, transferVars>>
    \/ channel_deposit_acquire(Caller) /\ UNCHANGED <<served, eventVars, channels, transferVars>>
    \/ channel_deposit_approve(Caller) /\ UNCHANGED <<served, eventVars, channels, transferVars>>
    \/ channel_deposit_submit(Caller) /\ UNCHANGED <<served, eventVars, channels, transferVars>>
    \/ channel_deposit_wait(Caller) /\ UNCHANGED <<served, eventVars, channels, transferVars>>
    \/ channel_deposit_timeout(Caller) /\ UNCHANGED <<served, eventVars, channels, transferVars>>
    \/ \E x \in Partners :
          channel_batch_close_start(Caller, "close", T1, <<x>>)
          /\ UNCHANGED <<served, eventVars, channels, transferVars>>
    \/ channel_batch_close_acquire(Caller) /\ UNCHANGED <<served, eventVars, channels, transferVars>>
    \/ channel_batch_close_submit(Caller) /\ UNCHANGED <<served, eventVars, channels, transferVars>>
    \/ channel_batch_close_wait(Caller) /\ UNCHANGED <<served, eventVars, channels, transferVars>>
    \/ channel_batch_close_timeout(Caller) /\ UNCHANGED <<served, eventVars, channels, transferVars>>
    \/ reconcile /\ UNCHANGED <<served, eventVars, channels, transferVars>>
    \/ next_request(Caller)

ScenarioSpec == InitWith(ScenarioFunds) /\ [][ScenarioNext]_vars

----------------------------------------------------------------------------
(* get_channel_events and get_token_network_events, lines 563-626 *)

MaxLog == 2
MaxContractLog == 1
EventBlocks == 0..1

\* lines 42-46
EVENTS_EXTERNALLY_VISIBLE ==
    {"EventTransferSentSuccess", "EventTransferSentFailed",
     "EventTransferReceivedSuccess"}

\* the kinds of event the node records internally: the three above and
\* kinds that are not exposed
InternalEventKinds ==
    EVENTS_EXTERNALLY_VISIBLE \cup {"SendDirectTransfer"}

\* to_block='latest'
Latest == <<>>

ToBlocks == {Latest} \cup {Some(b) : b \in EventBlocks}

InRange(block_number, from_block, to_block) ==
    /\ block_number >= from_block
    /\ to_block # Latest => block_number <= to_block[1]

\* get_all_netting_channel_events / get_all_channel_manager_events: the
\* contract events of the block range, as the chain returns them
get_all_contract_events(from_block, to_block) ==
    SelectSeq(contract_events,
              LAMBDA e : InRange(e.block_number, from_block, to_block))

\* raiden.wal.storage.get_events_by_block
get_events_by_block(from_block, to_block) ==
    SelectSeq(wal, LAMBDA e : InRange(e.block_number, from_block, to_block))

\* lines 581, 619: isinstance(event, EVENTS_EXTERNALLY_VISIBLE)
externally_visible_mut(event) == TRUE
externally_visible(event) == event.event \in EVENTS_EXTERNALLY_VISIBLE

\* lines 582-586, 620-624: the record made of an internal event
new_event(e) ==
    [origin |-> "internal", block_number |-> e.block_number, event |-> e.event]

\* the visible records put in front of the contract events
append_visible_mut(returned, raiden_events) ==
    LET shown == SelectSeq(raiden_events, externally_visible)
    IN  [i \in 1..Len(shown) |-> new_event(shown[i])] \o returned

RECURSIVE append_visible(_, _)
\* lines 580-587, 618-625: the loop over raiden_events
append_visible(returned, raiden_events) ==
    IF raiden_events = <<>> THEN returned
    ELSE append_visible(
            IF externally_visible(Head(raiden_events))
            THEN Append(returned, new_event(Head(raiden_events)))
            ELSE returned,
            Tail(raiden_events))

QueryResult(op, error, from_block, to_block, events) ==
    [op |-> op, error |-> error, from_block |-> from_block,
     to_block |-> to_block, events |-> events]

get_channel_events(channel_address, from_block, to_block) ==
    /\ returned_events' =
          IF ~is_binary_address(channel_address)
          THEN QueryResult("channel_events", "InvalidAddress", from_block, to_block, <<>>)
          ELSE QueryResult("channel_events", OK, from_block, to_block,
                  append_visible(get_all_contract_events(from_block, to_block),
                                 get_events_by_block(from_block, to_block)))
    /\ UNCHANGED <<apiVars, served, contract_events, wal, channels, transferVars>>

get_token_network_events(token_address, from_block, to_block) ==
    /\ returned_events' =
          IF ~is_binary_address(token_address)
          THEN QueryResult("token_network_events", "InvalidAddress",
                           from_block, to_block, <<>>)
          ELSE IF token_address \notin chainTokens
          THEN QueryResult("token_network_events", "UnknownTokenAddress",
                           from_block, to_block, <<>>)
          ELSE QueryResult("token_network_events", OK, from_block, to_block,
                  append_visible(get_all_contract_events(from_block, to_block),
                                 get_events_by_block(from_block, to_block)))
    /\ UNCHANGED <<apiVars, served, contract_events, wal, channels, transferVars>>

\* the block of the last event of a log
LastBlock(log) == IF log = <<>> THEN 0 ELSE log[Len(log)].block_number

\* the node records an internal event in its log, at the current block
record_event(kind, block_number) ==
    /\ Len(wal) < MaxLog
    /\ block_number >= LastBlock(wal)
    /\ wal' = Append(wal, [block_number |-> block_number, event |-> kind])
    /\ UNCHANGED <<apiVars, served, contract_events, returned_events, channels,
                   transferVars>>

\* a contract event is mined
contract_event(type, block_number) ==
    /\ Len(contract_events) < MaxContractLog
    /\ block_number >= LastBlock(contract_events)
    /\ contract_events' = Append(contract_events,
            [origin |-> "ledger", block_number |-> block_number, event |-> type])
    /\ UNCHANGED <<apiVars, served, wal, returned_events, channels, transferVars>>

EventsNext ==
    \/ \E k \in InternalEventKinds, b \in EventBlocks : record_event(k, b)
    \/ \E b \in EventBlocks : contract_event("ChannelNewBalance", b)
    \/ \E c \in {"P1", BadAddr}, f \in EventBlocks, t \in ToBlocks :
          get_channel_events(c, f, t)
    \/ \E a \in {T1, T2, BadAddr}, f \in EventBlocks, t \in ToBlocks :
          get_token_network_events(a, f, t)

EventsSpec == Init /\ [][EventsNext]_vars

----------------------------------------------------------------------------
(* transfer_async, lines 504-552; transfer_and_wait (lines 485-502) calls it
   with the same arguments and waits for its result *)

MaxTransfers == 2

TransferAmounts == {Amount(TRUE, v) : v \in -1..2} \cup {Amount(FALSE, 1)}

\* lines 512-516: not isinstance(amount, int), amount <= 0
invalid_amount_mut(amount) == ~amount.is_int \/ amount.value < 0
invalid_amount(amount) == ~amount.is_int \/ amount.value <= 0

transfer_async(amount, token_address, target) ==
    /\ Len(initiated) < MaxTransfers
    /\ IF invalid_amount(amount)
       THEN /\ transfer_result' = TransferCall(amount, token_address, target,
                                                "InvalidAmount")
            /\ UNCHANGED initiated
       ELSE IF ~is_binary_address(token_address) \/ ~is_binary_address(target)
       THEN /\ transfer_result' = TransferCall(amount, token_address, target,
                                                "InvalidAddress")
            /\ UNCHANGED initiated
       ELSE IF token_address \notin tokens
       THEN /\ transfer_result' = TransferCall(amount, token_address, target,
                                                "UnknownTokenAddress")
            /\ UNCHANGED initiated
       ELSE /\ transfer_result' = TransferCall(amount, token_address, target, OK)
            /\ initiated' = Append(initiated,
                    [token |-> token_address, amount |-> amount.value,
                     target |-> target])
    /\ UNCHANGED <<apiVars, served, eventVars, channels>>

TransferNext ==
    \E a \in TransferAmounts, t \in {T1, T2, BadAddr}, x \in Partners \cup {BadAddr} :
        transfer_async(a, t, x)

TransferSpec == Init /\ [][TransferNext]_vars

----------------------------------------------------------------------------
(* ApiTestContext (raiden/tests/utils/apitestcontext.py): the channel
   operations the API tests run against *)

MaxChannels == 3
MaxCtxBalance == 1

\* make_channel, lines 115-146: a Channel whose NettingChannelMock is 'open'
make_channel(token_address, partner_address, balance) ==
    [token_address |-> token_address, partner_address |-> partner_address,
     state |-> "open", contract_balance |-> balance]

\* find_channel, lines 152-158: the index of the first channel of the token
\* with the partner, 0 when there is none (ValueError)
find_channel(token_address, partner_address) ==
    LET found == {i \in 1..Len(channels) :
                    /\ channels[i].token_address = token_address
                    /\ channels[i].partner_address = partner_address}
    IN IF found = {} THEN 0
       ELSE CHOOSE i \in found : \A j \in found : i <= j

\* open_channel, lines 185-200
open_channel(token_address, partner_address) ==
    /\ Len(channels) < MaxChannels
    /\ channels' = Append(channels, make_channel(token_address, partner_address, 0))
    /\ UNCHANGED <<apiVars, served, eventVars, transferVars>>

\* deposit, lines 202-205
ctx_deposit(token_address, partner_address, amount) ==
    /\ LET i == find_channel(token_address, partner_address) IN
       /\ i # 0
       /\ channels[i].contract_balance + amount <= MaxCtxBalance
       /\ channels' = [channels EXCEPT ![i].contract_balance = @ + amount]
    /\ UNCHANGED <<apiVars, served, eventVars, transferVars>>

\* close, lines 207-211
ctx_close(token_address, partner_address) ==
    /\ LET i == find_channel(token_address, partner_address) IN
       /\ i # 0
       /\ channels' = [channels EXCEPT ![i].state = "closed"]
    /\ UNCHANGED <<apiVars, served, eventVars, transferVars>>

\* settle, lines 213-217
ctx_settle(token_address, partner_address) ==
    /\ LET i == find_channel(token_address, partner_address) IN
       /\ i # 0
       /\ channels' = [channels EXCEPT ![i].state = "settled"]
    /\ UNCHANGED <<apiVars, served, eventVars, transferVars>>

CtxNext ==
    \/ \E t \in {T1, T2}, x \in Partners : open_channel(t, x)
    \/ \E t \in {T1, T2}, x \in Partners : ctx_deposit(t, x, 1)
    \/ \E t \in {T1, T2}, x \in Partners : ctx_close(t, x)
    \/ \E t \in {T1, T2}, x \in Partners : ctx_settle(t, x)

CtxSpec == Init /\ [][CtxNext]_vars

----------------------------------------------------------------------------
(* Properties *)

InFlight(p) == pc[p] \notin {"idle", "done"}

Returned(p) == pc[p] = "done"

LockOps == {"deposit", "close", "batch_close"}

NoneAcquired(p) == \A c \in Partners : hist[p].acq[c] = 0

\* the channel a deposit or a single close names
Target(p) == call[p].partners[1]

\* C1: for every channel c, at most one in-flight deposit, close or
\* batch_close holds the operation lock of c, and a held lock is marked
\* held, under every interleaving of the calls.
MutualExclusion ==
    \A c \in Partners :
        /\ Cardinality(Holders(c)) <= 1
        /\ \A p \in Holders(c) :
              InFlight(p) /\ call[p].op \in LockOps /\ lock[c]

\* C1 witness: a call holds the lock of c while another call on c has
\* been turned away.
MutualExclusionWitness ==
    \E c \in Partners, p \in Procs, q \in Procs :
        /\ p # q
        /\ Holders(c) = {p}
        /\ Returned(q) /\ result[q] = "ChannelBusyError"
        /\ call[q].op \in LockOps
        /\ \E i \in 1..Len(call[q].partners) : call[q].partners[i] = c

\* C2: a batch_close (or close) that finds one of its channels locked
\* fails with channel-busy; when it has returned, every lock it acquired
\* has been released and it has submitted no close at all.
BatchAllOrNothing ==
    \A p \in Procs :
        (/\ call[p].op \in {"close", "batch_close"}
         /\ Returned(p)
         /\ result[p] = "ChannelBusyError")
        => /\ loc[p].stack = {}
           /\ hist[p].txs = <<>>
           /\ \A c \in Partners :
                 hist[p].acq[c] > 0 =>
                    /\ hist[p].rel[c] = hist[p].acq[c]
                    /\ lock[c] => Holders(c) # {}

\* C2 witness: a batch over two channels acquired the first lock, found
\* the second one busy and returned.
BatchAllOrNothingWitness ==
    \E p \in Procs, c \in Partners :
        /\ call[p].op = "batch_close"
        /\ Returned(p)
        /\ result[p] = "ChannelBusyError"
        /\ hist[p].acq[c] = 1
        /\ ~lock[c]

\* two close calls on the same channel
SameClose(p, q) ==
    /\ p # q
    /\ call[p].op = "close" /\ call[q].op = "close"
    /\ call[p].token = call[q].token
    /\ Target(p) = Target(q)

\* C3 (as claimed): of two concurrent close calls on one channel, the one
\* that holds the lock when the other is turned away submits the close and
\* succeeds (stated for the runs in which its ledger call returned).
CloseRaceWinnerSucceeds ==
    \A p \in Procs :
        (/\ call[p].op = "close"
         /\ hist[p].beat
         /\ Returned(p)
         /\ result[p] # "TransactionThrew")
        => result[p] = OK

\* the step in which a close attempts a lock that another close on the same
\* channel holds
CloseRaceStep ==
    \A p \in Procs, q \in Procs :
        (/\ SameClose(p, q)
         /\ pc[q] = "close_acquire"
         /\ Target(q) \in loc[p].stack
         /\ <<pc[q], loc[q]>>' # <<pc[q], loc[q]>>)
        => /\ pc'[q] = "done"
           /\ result'[q] = "ChannelBusyError"
           /\ hist'[q].txs = <<>>
           /\ loc'[q].stack = {}
           /\ lock'[Target(q)]
           /\ Target(q) \in loc'[p].stack
           /\ hist'[p].beat

\* what the two calls of a close race have done
CloseRaceOutcome ==
    \A p \in Procs :
        (call[p].op = "close" /\ hist[p].beat)
        => /\ \A q \in Procs \ {p} :
                 SameClose(p, q) =>
                    /\ Returned(q) /\ result[q] = "ChannelBusyError"
                    /\ hist[q].txs = <<>>
           /\ Returned(p) =>
                 /\ hist[p].txs = <<Tx("close", Target(p))>>
                 /\ result[p] \in {OK, "EthNodeCommunicationError", "TransactionThrew"}
                 /\ result[p] = OK => channel_closed(<<Target(p)>>)

\* C3 (amended): when a close attempts the lock of a channel that another
\* close on the same channel holds, the attempt itself ends the call with
\* channel-busy: it submits nothing, holds nothing and leaves the lock with
\* its holder.  Only the holder submits the close; it returns success when
\* the store reports the channel closed, and otherwise fails with the
\* communication timeout or the error of its ledger call.
CloseRace == [][CloseRaceStep /\ CloseRaceOutcome']_vars

\* C3 witness: two close calls on one channel have both returned, one
\* with success and the other with channel-busy against it.
CloseRaceWitness ==
    \E p \in Procs, q \in Procs :
        /\ SameClose(p, q)
        /\ Returned(p) /\ Returned(q)
        /\ hist[p].beat
        /\ result[p] = OK
        /\ result[q] = "ChannelBusyError"

\* C4: on every exit path of deposit, close and batch_close (success,
\* error of a ledger call, timeout, busy) each lock the call acquired is
\* released exactly once: a returned call holds no lock, no call releases
\* more often than it acquired, and no lock stays held without a holder.
ScopedLocks ==
    /\ \A p \in Procs, c \in Partners :
          /\ hist[p].acq[c] <= 1
          /\ hist[p].rel[c] <= hist[p].acq[c]
          /\ (c \in loc[p].stack) <=> (hist[p].acq[c] = 1 /\ hist[p].rel[c] = 0)
          /\ Returned(p) => hist[p].rel[c] = hist[p].acq[c]
    /\ \A c \in Partners : lock[c] <=> Holders(c) # {}

\* C4 witness: a deposit that timed out and a batch_close whose ledger
\* call raised have both returned, each having released what it acquired.
ScopedLocksWitness ==
    \E p \in Procs, q \in Procs :
        /\ call[p].op = "deposit" /\ Returned(p)
        /\ result[p] = "EthNodeCommunicationError"
        /\ hist[p].rel[Target(p)] = 1
        /\ call[q].op = "batch_close" /\ Returned(q)
        /\ result[q] = "TransactionThrew"
        /\ \E c \in Partners : hist[q].rel[c] = 1
        /\ \A c \in Partners : ~lock[c]

\* C5: a deposit of amount returns success only once the store reports
\* the caller's balance in the channel to be at least b + amount, b being
\* the caller's balance in the channel before this call's deposit
\* transaction was submitted.
DepositConfirmed ==
    \A p \in Procs :
        (call[p].op = "deposit" /\ Returned(p) /\ result[p] = OK)
        => store[Target(p)].balance >= hist[p].prior + call[p].amount

\* what the confirmation wait of the call waits for
Confirmed(p) ==
    CASE call[p].op = "deposit" ->
            participant_balance_at_least(Target(p), loc[p].target_balance)
      [] call[p].op = "open" -> channel_exists(call[p].token, Target(p))
      [] call[p].op \in {"close", "batch_close"} ->
            channel_closed(loc[p].channels_to_close)
      [] OTHER -> FALSE

WaitPcs == {"open_wait", "deposit_wait", "close_wait"}

\* the step that ends a confirmation wait
TimeoutStep ==
    \A p \in Procs :
        (pc[p] \in WaitPcs /\ pc'[p] # pc[p])
        => /\ pc'[p] = "done"
           /\ \/ result'[p] = OK /\ Confirmed(p)
              \/ /\ result'[p] = "EthNodeCommunicationError"
                 /\ ledgerVars' = ledgerVars
                 /\ storeVars' = storeVars

\* C6: a confirmation wait of open, deposit, close or batch_close that
\* does not end in success ends in the ledger-communication timeout, and
\* that step leaves the ledger (the submitted mutation and its pending
\* event) and the store as they were: nothing is retracted, and the
\* pipeline can still apply the event afterwards.
TimeoutObservationOnly == [][TimeoutStep]_vars

\* C6 witness: a deposit returned the timeout while the store did not yet
\* show its deposit, and the store shows it now.
TimeoutObservationOnlyWitness ==
    \E p \in Procs :
        /\ call[p].op = "deposit"
        /\ Returned(p)
        /\ result[p] = "EthNodeCommunicationError"
        /\ hist[p].unconfirmed
        /\ Confirmed(p)
        /\ store[Target(p)].balance >= hist[p].prior + call[p].amount

ValidationErrors == {"InvalidAddress", "UnknownTokenAddress"}

\* the arguments of a deposit pass the checks of lines 249-259
DepositWellFormed(p) ==
    /\ is_binary_address(call[p].token)
    /\ is_binary_address(Target(p))
    /\ hist[p].known0
    /\ loc[p].channel_state.exists

\* C7 (as claimed): a deposit of more than the caller's token balance is
\* always rejected with insufficient-funds (stated for the token T1, whose
\* balance tokenBal is).
InsufficientAlwaysReported ==
    \A p \in Procs :
        (/\ call[p].op = "deposit"
         /\ call[p].token = T1
         /\ Returned(p)
         /\ call[p].amount > hist[p].bal0)
        => result[p] = "InsufficientFunds"

\* C7 (amended): a deposit of more than the caller's token balance never
\* acquires a lock and never submits approve or deposit; it is rejected
\* with insufficient-funds when its addresses are well-formed, the token
\* is known and the channel exists, and with the error of the earlier
\* check (invalid-address, unknown-token) otherwise.
InsufficientRejected ==
    \A p \in Procs :
        (/\ call[p].op = "deposit"
         /\ \/ call[p].amount > hist[p].bal0
            \/ pc[p] \notin {"idle", "deposit_balance"} /\ DepositWellFormed(p)
                 /\ call[p].amount > loc[p].balance)
        => /\ NoneAcquired(p) /\ loc[p].stack = {}
           /\ hist[p].txs = <<>>
           /\ pc[p] \in {"deposit_balance", "done"}
           /\ Returned(p) =>
                 IF DepositWellFormed(p)
                 THEN result[p] = "InsufficientFunds"
                 ELSE result[p] \in ValidationErrors

\* C7 witness: a well-formed deposit of more than the balance has been
\* rejected with insufficient-funds.
InsufficientRejectedWitness ==
    \E p \in Procs :
        /\ call[p].op = "deposit"
        /\ DepositWellFormed(p)
        /\ call[p].amount > loc[p].balance
        /\ Returned(p)
        /\ result[p] = "InsufficientFunds"
        /\ hist[p].txs = <<>> /\ NoneAcquired(p)

\* the timeouts an open call works with (lines 170-174)
EffReveal(p) ==
    IF call[p].reveal_timeout = None THEN ConfigReveal ELSE call[p].reveal_timeout[1]

EffSettle(p) ==
    IF call[p].settle_timeout = None THEN ConfigSettle ELSE call[p].settle_timeout[1]

\* C8: an open whose reveal_timeout (given or default) is at least its
\* settle_timeout (given or default) is rejected with
\* invalid-settle-timeout and makes no ledger call.
OpenRejectsSettleTimeout ==
    \A p \in Procs :
        (call[p].op = "open" /\ EffReveal(p) >= EffSettle(p))
        => /\ Returned(p)
           /\ result[p] = "InvalidSettleTimeout"
           /\ hist[p].txs = <<>>

\* C8 witness: an open with the default reveal_timeout and an explicit
\* settle_timeout equal to it has been rejected.
OpenRejectsSettleTimeoutWitness ==
    \E p \in Procs :
        /\ call[p].op = "open"
        /\ call[p].reveal_timeout = None
        /\ call[p].settle_timeout # None
        /\ EffReveal(p) = EffSettle(p)
        /\ result[p] = "InvalidSettleTimeout"

RegisterFailureConcludes(p) ==
    /\ call[p].op = "register"
    /\ pc[p] = "register_wait"
    /\ loc[p].outcome # OK
    /\ pc'[p] = "done"

\* a concluding call has seen a newer block and reports what the store says
RegisterRechecksStep ==
    \A p \in Procs :
        RegisterFailureConcludes(p)
        => /\ block > hist[p].failBlock
           /\ call[p].token \in tokens =>
                 result'[p] = "AlreadyRegisteredTokenAddress"

DepositTxs(p) ==
    {i \in 1..Len(hist[p].txs) : hist[p].txs[i][1] \in {"approve", "deposit"}}

\* C11: a deposit on a channel whose status is not OPEN when the call is
\* made (a close has been requested, or the channel is closed or settled)
\* is rejected, and it submits neither approve nor deposit.
DepositRequiresOpen ==
    \A p \in Procs :
        (/\ call[p].op = "deposit"
         /\ hist[p].status0 \in {"closing", "closed", "settled"})
        => /\ DepositTxs(p) = {}
           /\ Returned(p) => result[p] # OK

\* C12: a deposit for a known token and a well-formed partner without a
\* channel in the store fails with a channel-not-found error, which is
\* not the validation error invalid-address, and it has acquired no lock
\* and submitted nothing.
DepositChannelNotFound ==
    \A p \in Procs :
        (/\ call[p].op = "deposit"
         /\ Returned(p)
         /\ is_binary_address(call[p].token)
         /\ is_binary_address(Target(p))
         /\ hist[p].known0
         /\ ~loc[p].channel_state.exists)
        => /\ result[p] \notin {OK, "InvalidAddress"}
           /\ NoneAcquired(p)
           /\ hist[p].txs = <<>>

\* a batch_close some of whose named partners had no channel for the token
\* when the call was made
NamesMissingChannel(p) ==
    /\ call[p].op = "batch_close"
    /\ is_binary_address(call[p].token)
    /\ \A i \in 1..Len(call[p].partners) : is_binary_address(call[p].partners[i])
    /\ hist[p].known0
    /\ Len(loc[p].channels_to_close) < Len(call[p].partners)

\* C13: a batch_close that names a partner without a channel for the
\* token is rejected: it acquires no lock, submits no close and never
\* reports success.
BatchCloseAllExist ==
    \A p \in Procs :
        NamesMissingChannel(p)
        => /\ NoneAcquired(p)
           /\ hist[p].txs = <<>>
           /\ Returned(p) => result[p] # OK

\* the channels of the store that match each constraint that is given
Matching(token, partner) ==
    {ch \in list_all_channelstate :
        /\ token # NoAddress => ch.token = token
        /\ partner # NoAddress => ch.partner = partner}

\* C14: for every store state and every combination of optional token and
\* partner, channel_list returns exactly the channels of the store that
\* match each given constraint, and at most one channel when both are given.
ChannelListFilters ==
    \A token \in {NoAddress, T1, T2}, partner \in {NoAddress} \cup Partners :
        /\ get_channel_list(token, partner).error = OK
        /\ get_channel_list(token, partner).channels = Matching(token, partner)
        /\ (token # NoAddress /\ partner # NoAddress)
              => Cardinality(get_channel_list(token, partner).channels) <= 1

\* the records of the last query's output that come from the internal log
InternalRecords ==
    SelectSeq(returned_events.events, LAMBDA r : r.origin = "internal")

\* the whitelisted events of the internal log in the queried block range
VisibleLogged ==
    SelectSeq(wal, LAMBDA e :
        /\ InRange(e.block_number, returned_events.from_block,
                   returned_events.to_block)
        /\ e.event \in EVENTS_EXTERNALLY_VISIBLE)

\* C15: whatever the internal log holds, every internally-sourced record
\* in the output of channel_events and token_network_events is of one of
\* the three whitelisted kinds; an internal event of another kind never
\* appears in the output.
EventWhitelist ==
    /\ \A i \in 1..Len(InternalRecords) :
          InternalRecords[i].event \in
             {"EventTransferSentSuccess", "EventTransferSentFailed",
              "EventTransferReceivedSuccess"}
    /\ \A i \in 1..Len(InternalRecords) :
          \E j \in 1..Len(wal) :
             /\ wal[j].event = InternalRecords[i].event
             /\ wal[j].block_number = InternalRecords[i].block_number

\* C15 witness: a query over a block range in which the log holds a
\* whitelisted and a non-whitelisted event returned the whitelisted one.
EventWhitelistWitness ==
    /\ returned_events.op \in {"channel_events", "token_network_events"}
    /\ returned_events.error = OK
    /\ Len(InternalRecords) = 1
    /\ \E j \in 1..Len(wal) :
          /\ wal[j].event \notin EVENTS_EXTERNALLY_VISIBLE
          /\ InRange(wal[j].block_number, returned_events.from_block,
                     returned_events.to_block)

\* the calls the caller has made that have returned, in order
Completed ==
    IF pc[Caller] = "done" THEN Append(served, ServedCall(Caller)) ELSE served

\* the caller is between calls, and the calls it has made on the channel
\* with x are open, deposit and close, each of which returned success
LifecycleDone(x) ==
    /\ pc[Caller] \in {"idle", "done"}
    /\ SelectSeq(Completed, LAMBDA c : c.partners = <<x>>) =
          << [op |-> "open", partners |-> <<x>>, result |-> OK],
             [op |-> "deposit", partners |-> <<x>>, result |-> OK],
             [op |-> "close", partners |-> <<x>>, result |-> OK] >>

\* C16: after open(T, P, settle_timeout=800, reveal_timeout=20), then
\* deposit(T, P, 100), then close(T, P), each having returned success,
\* channel_list(T, P) reports exactly one channel, with status CLOSED and
\* own balance 100, and no channel operation lock is held.
LifecycleScenario ==
    \A x \in Partners :
        LifecycleDone(x)
        => /\ get_channel_list(T1, x) =
                 ListResult(OK, {[token |-> T1, partner |-> x,
                                  status |-> "closed", balance |-> 100]})
           /\ \A c \in Partners : ~lock[c]

\* C16 witness: the three calls of the scenario have returned success.
LifecycleScenarioWitness ==
    \E x \in Partners :
        /\ LifecycleDone(x)
        /\ Len(Completed) = 3
        /\ store[x].status = "closed"

\* C17: in every reachable state, after any sequence of open calls
\* (repeated ones for the same token and partner included), at most one
\* channel exists per (token, partner) pair.
ChannelUnique ==
    \A i \in 1..Len(channels), j \in 1..Len(channels) :
        (/\ channels[i].token_address = channels[j].token_address
         /\ channels[i].partner_address = channels[j].partner_address)
        => i = j

\* the place of a status in the lifecycle
Rank(state) ==
    CASE state = "open" -> 1
      [] state = "closed" -> 2
      [] state = "settled" -> 3

NeverBackwards ==
    \A i \in 1..Len(channels) :
        /\ Rank(channels'[i].state) >= Rank(channels[i].state)
        /\ channels[i].state = "settled" => channels'[i].state = "settled"

\* C18: under any sequence of open, deposit, close and settle a channel's
\* status only moves forward (open, closed, settled), and a settled
\* channel is never changed again.
LifecycleMonotone == [][NeverBackwards]_vars

\* the channel whose lock the call is about to attempt
Attempted(q) ==
    IF call[q].op = "deposit" THEN loc[q].channel_state.identifier
    ELSE loc[q].channels_to_close[loc[q].idx]

AtAcquire(q) == pc[q] \in {"deposit_acquire", "close_acquire"}

\* the call takes its acquisition step
Attempts(q) == AtAcquire(q) /\ <<pc[q], loc[q]>>' # <<pc[q], loc[q]>>

\* the ledger calls every call has made
AllTxs == [p \in Procs |-> hist[p].txs]

\* the attempt of a lock that another call holds ends the attempting call
\* with channel-busy and changes nothing else
ContentionStep ==
    \A q \in Procs :
        (Attempts(q) /\ Holders(Attempted(q)) \ {q} # {})
        => /\ pc'[q] = "done"
           /\ result'[q] = "ChannelBusyError"
           /\ lock'[Attempted(q)]
           /\ Holders(Attempted(q))' = Holders(Attempted(q))
           /\ ledgerVars' = ledgerVars
           /\ storeVars' = storeVars
           /\ AllTxs' = AllTxs

\* C21: while a deposit, close or batch_close holds the lock of channel
\* c, every other deposit or close that attempts the lock of c fails at
\* that attempt with channel-busy, and the failed attempt leaves the
\* holder of the lock, the submitted ledger mutations and the submitted
\* close requests unchanged.
ContentionFrame == [][ContentionStep]_vars

\* C21 witness: a deposit was turned away with channel-busy while a close
\* that has submitted its close still holds the lock.
ContentionFrameWitness ==
    \E p \in Procs, q \in Procs :
        /\ p # q
        /\ call[q].op = "deposit" /\ Returned(q)
        /\ result[q] = "ChannelBusyError"
        /\ hist[q].txs = <<>>
        /\ call[p].op = "close" /\ pc[p] = "close_wait"
        /\ Target(q) \in loc[p].stack
        /\ hist[p].txs = <<Tx("close", Target(q))>>

\* a channel-busy failure happens only at the attempt of a lock that
\* another call holds
IndependenceStep ==
    \A q \in Procs :
        (pc[q] # "done" /\ pc'[q] = "done" /\ result'[q] = "ChannelBusyError")
        => /\ AtAcquire(q)
           /\ lock[Attempted(q)]
           /\ Holders(Attempted(q)) \ {q} # {}
           /\ \E i \in 1..Len(call[q].partners) :
                 call[q].partners[i] = Attempted(q)

\* C22: a deposit or close on channel c never fails with channel-busy
\* while only locks of other channels are held, and a batch_close fails
\* with channel-busy only if one of the channels it names is locked by
\* another operation.
Independence == [][IndependenceStep]_vars

\* C22 witness: two calls on different channels hold their locks at the
\* same time.
IndependenceWitness ==
    \E p \in Procs, q \in Procs :
        /\ call[p].op \in {"deposit", "close"}
        /\ call[q].op \in {"deposit", "close"}
        /\ Target(p) # Target(q)
        /\ loc[p].stack = {Target(p)}
        /\ loc[q].stack = {Target(q)}

\* the step in which a batch_close finds a lock busy
BatchFailureStep ==
    \A q \in Procs :
        (/\ call[q].op = "batch_close"
         /\ Attempts(q)
         /\ lock[Attempted(q)])
        => /\ result'[q] = "ChannelBusyError"
           /\ lock'[Attempted(q)]
           /\ Holders(Attempted(q))' = Holders(Attempted(q))
           /\ \A c \in loc[q].stack : ~lock'[c]
           /\ \A c \in Partners \ loc[q].stack : lock'[c] = lock[c]

\* C23: when batch_close fails with channel-busy on channel ci, the lock
\* of ci stays with the operation that held it, every lock the batch
\* acquired before ci is free again, and no other lock is touched.
BatchReleasesOwn == [][BatchFailureStep]_vars

\* C23 witness: a batch over two channels acquired and released the
\* first and failed on the second, which its holder still holds.
BatchReleasesOwnWitness ==
    \E q \in Procs, p \in Procs, c \in Partners, d \in Partners :
        /\ p # q /\ c # d
        /\ call[q].op = "batch_close" /\ Returned(q)
        /\ result[q] = "ChannelBusyError"
        /\ hist[q].acq[c] = 1 /\ hist[q].rel[c] = 1 /\ ~lock[c]
        /\ hist[q].acq[d] = 0
        /\ d \in loc[p].stack /\ lock[d]

\* C24: every lock acquired by deposit, close or batch_close is
\* eventually released, given that ledger calls return and the
\* confirmation timeout fires: a busy channel becomes free again.
NoWedge == \A c \in Partners : lock[c] ~> ~lock[c]

\* C24 witness: a batch_close that timed out had held the lock of a
\* channel that another call holds now.
NoWedgeWitness ==
    \E p \in Procs, q \in Procs, c \in Partners :
        /\ p # q
        /\ call[p].op = "batch_close" /\ Returned(p)
        /\ result[p] = "EthNodeCommunicationError"
        /\ hist[p].acq[c] = 1 /\ hist[p].rel[c] = 1
        /\ c \in loc[q].stack /\ lock[c]

\* the channels a batch_close works on, and the closes it is to submit
BatchIds(p) == {loc[p].channels_to_close[i] : i \in 1..Len(loc[p].channels_to_close)}

BatchCloses(p) ==
    [i \in 1..Len(loc[p].channels_to_close) |->
        Tx("close", loc[p].channels_to_close[i])]

IsPrefix(a, b) == Len(a) <= Len(b) /\ a = SubSeq(b, 1, Len(a))

BatchOrder ==
    \A p \in Procs :
        call[p].op = "batch_close"
        => /\ IsPrefix(hist[p].txs, BatchCloses(p))
           /\ hist[p].txs # <<>> => \A c \in BatchIds(p) : hist[p].acq[c] = 1
           /\ pc[p] \in {"close_submit", "close_wait"} => loc[p].stack = BatchIds(p)
           /\ pc[p] = "close_wait" => hist[p].txs = BatchCloses(p)
           /\ (Returned(p) /\ result[p] \in {OK, "EthNodeCommunicationError"})
                 => hist[p].txs = BatchCloses(p)

\* the step that ends the combined wait of a batch_close
BatchWaitStep ==
    \A p \in Procs :
        (call[p].op = "batch_close" /\ pc[p] = "close_wait" /\ pc'[p] # pc[p])
        => /\ pc'[p] = "done"
           /\ \A c \in BatchIds(p) : lock[c] /\ c \in loc[p].stack
           /\ IF channel_closed(loc[p].channels_to_close)
              THEN result'[p] \in {OK, "EthNodeCommunicationError"}
              ELSE result'[p] = "EthNodeCommunicationError"

\* C25: in batch_close the lock of every channel of the batch is acquired
\* before the first close is submitted, a close is then submitted for
\* every channel, the call returns success only when the store reports
\* all of them closed, it fails with the communication timeout when one
\* of them is not closed as the wait ends, and all locks are held until
\* then.
BatchOrdering == [][BatchWaitStep /\ BatchOrder']_vars

\* C25 witness: a batch over two channels has returned success with a
\* close submitted for each.
BatchOrderingWitness ==
    \E p \in Procs :
        /\ call[p].op = "batch_close" /\ Returned(p)
        /\ result[p] = OK
        /\ Len(hist[p].txs) = 2
        /\ Cardinality(BatchIds(p)) = 2
        /\ channel_closed(loc[p].channels_to_close)

\* the errors that correspond to what is wrong with a transfer call
TransferErrors(t) ==
    (IF ~t.amount.is_int THEN {"InvalidAmount"}
     ELSE IF t.amount.value <= 0 THEN {"InvalidAmount"} ELSE {})
    \cup (IF t.token_address = BadAddr \/ t.target = BadAddr
          THEN {"InvalidAddress"} ELSE {})
    \cup (IF t.token_address # BadAddr /\ t.token_address \notin tokens
          THEN {"UnknownTokenAddress"} ELSE {})

TransferStep ==
    (transfer_result' # transfer_result \/ initiated' # initiated)
    => IF TransferErrors(transfer_result') # {}
       THEN /\ transfer_result'.result \in TransferErrors(transfer_result')
            /\ initiated' = initiated
            /\ apiVars' = apiVars
       ELSE /\ transfer_result'.result = OK
            /\ Len(initiated') = Len(initiated) + 1

\* C26: transfer_async with a non-integer amount, an amount <= 0, a
\* malformed token or target address or a token unknown to the node is
\* rejected with the corresponding error (invalid-amount, invalid-address,
\* unknown-token) before any transfer is initiated, and the node state is
\* left as it was.
TransferValidation == [][TransferStep]_vars

\* C26 witness: after a transfer was initiated, a transfer of amount 0 to
\* a well-formed target was rejected with invalid-amount.
TransferValidationWitness ==
    /\ Len(initiated) = 1
    /\ transfer_result.amount = Amount(TRUE, 0)
    /\ transfer_result.token_address = T1
    /\ transfer_result.target \in Partners
    /\ transfer_result.result = "InvalidAmount"

\* the contract events of a block range, in the order of the chain
LedgerPart(from_block, to_block) ==
    SelectSeq(contract_events,
              LAMBDA e : InRange(e.block_number, from_block, to_block))

\* the whitelisted internal events of a block range, in the order of the log
InternalPart(from_block, to_block) ==
    LET shown == SelectSeq(wal,
            LAMBDA e : /\ InRange(e.block_number, from_block, to_block)
                       /\ e.event \in EVENTS_EXTERNALLY_VISIBLE)
    IN  [i \in 1..Len(shown) |->
            [origin |-> "internal", block_number |-> shown[i].block_number,
             event |-> shown[i].event]]

LedgerFirst(events) ==
    \A i, j \in 1..Len(events) :
        (i < j /\ events[i].origin = "internal") => events[j].origin = "internal"

EventOrderStep ==
    (returned_events' # returned_events /\ returned_events'.error = OK)
    => LET q == returned_events'
       IN  /\ q.events = LedgerPart(q.from_block, q.to_block)
                            \o InternalPart(q.from_block, q.to_block)
           /\ LedgerFirst(q.events)

\* C27: the sequence returned by channel_events and token_network_events
\* is the ledger events of the scope in their source order followed by
\* the whitelisted internal events of the block range in their recorded
\* order; every ledger record precedes every internal record.
EventOrdering == [][EventOrderStep]_vars

\* C27 witness: a query returned a ledger event followed by two different
\* internal events, in the order of the log.
EventOrderingWitness ==
    /\ returned_events.error = OK
    /\ Len(returned_events.events) = 3
    /\ returned_events.events[1].origin = "ledger"
    /\ returned_events.events[2].origin = "internal"
    /\ returned_events.events[3].origin = "internal"
    /\ returned_events.events[2].event # returned_events.events[3].event
    /\ Len(wal) = 2
    /\ returned_events.events[2].event = wal[1].event

\* the call of p holds the lock of the channel it names
HoldsTarget(p) ==
    /\ lock[Target(p)]
    /\ Target(p) \in loc[p].stack
    /\ hist[p].acq[Target(p)] = 1
    /\ hist[p].rel[Target(p)] = 0

\* p submits one more ledger call in this step
Submits(p) == Len(hist'[p].txs) = Len(hist[p].txs) + 1

DepositOrderStep(p) ==
    call[p].op = "deposit" =>
        /\ Submits(p) =>
              /\ HoldsTarget(p)
              /\ LET tx == hist'[p].txs[Len(hist'[p].txs)] IN
                 \/ /\ tx = Tx("approve", Target(p))
                    /\ hist[p].txs = <<>>
                    /\ pc[p] = "deposit_approve"
                 \/ /\ tx = Tx("deposit", Target(p))
                    /\ hist[p].txs = <<Tx("approve", Target(p))>>
                    /\ pc[p] = "deposit_submit"
        /\ (pc'[p] = "deposit_wait" /\ pc[p] # "deposit_wait") =>
              /\ HoldsTarget(p)'
              /\ hist'[p].txs = <<Tx("approve", Target(p)), Tx("deposit", Target(p))>>
        /\ (pc'[p] = "deposit_approve" /\ pc[p] # "deposit_approve") =>
              /\ ~lock[Target(p)]
              /\ HoldsTarget(p)'
              /\ hist'[p].txs = <<>>

\* C28: within a deposit call the channel lock is acquired first, then the
\* approval is submitted, then the deposit transaction, then the
\* confirmation wait starts; approve and deposit are submitted only while
\* the call holds the lock of the channel, and the deposit is never
\* submitted before the approve has returned.
DepositStepOrder == [][\A p \in Procs : DepositOrderStep(p)]_vars

\* C28 witness: a deposit waits for its confirmation with the approval and
\* the deposit submitted in this order and the lock of the channel held.
DepositStepOrderWitness ==
    \E p \in Procs :
        /\ call[p].op = "deposit"
        /\ pc[p] = "deposit_wait"
        /\ hist[p].txs = <<Tx("approve", Target(p)), Tx("deposit", Target(p))>>
        /\ HoldsTarget(p)

====
